---------------------------- MODULE Spec2Model ----------------------------
(***************************************************************************)
(* Model of the authentication core of fastapi-blog (src/auth.py,          *)
(* src/config.py) and of the user handlers that call it                    *)
(* (src/routers/users.py).                                                 *)
(*                                                                         *)
(* Strings that the code inspects (user names, e-mail addresses, token     *)
(* subjects) are sequences of one-character strings, so that str.lower(),  *)
(* str() and int() are computed character by character.  Cryptography is   *)
(* symbolic: an HMAC is the triple it was computed from, an Argon2 digest  *)
(* is the pair (password, salt), and the entropy source hands out values   *)
(* it has not handed out before.                                           *)
(*                                                                         *)
(* Time is counted in ticks; TicksPerSecond ticks make one second, so that *)
(* instants between two whole seconds exist.                               *)
(***************************************************************************)
EXTENDS Integers, Sequences, FiniteSets, TLC

VARIABLES
    now,          \* the clock, datetime.now(UTC), in ticks
    entropy,      \* number of salts the entropy source has handed out
    minted,       \* Token service: the last create_access_token call, or NoCall
    vres,         \* Token service: the last verify_access_token call at the current instant, or NoCall
    hashed,       \* Password hasher: the last two hash_password calls
    pwres,        \* Password hasher: the last verify_password call, or NoCall
    users,        \* user table: id -> row
    nextId,       \* user table: next autoincrement id
    uniqueCols,   \* user table: whether username/email carry a UNIQUE constraint
    req,          \* request slot -> the request being served (handler, position, locals, response)
    started       \* number of requests received so far

vars == <<now, entropy, minted, vres, hashed, pwres, users, nextId, uniqueCols, req, started>>

apiVars   == <<users, nextId, uniqueCols, req, started>>

-----------------------------------------------------------------------------
(* Bounds of the model *)

TicksPerSecond == 2      \* clock resolution
StartTicks     == 4      \* clock value when the process starts
MaxExtraTicks  == 4      \* ticks explored after the start and after the long sleep
MaxSalts       == 3      \* salts the entropy source hands out

(* Settings, src/config.py *)

ACCESS_TOKEN_EXPIRE_MINUTES == 30
ALGORITHM  == "HS256"
SECRET_KEY == "server-secret"

OtherKey == "other-secret"     \* any key that is not SECRET_KEY

\* Python's None where a string is expected.  Strings are sequences of
\* one-character strings, so this value is no string.
None   == <<"None">>
NoCall == [called |-> FALSE]

-----------------------------------------------------------------------------
(* datetime / timedelta *)

\* timedelta(minutes = m), in ticks
Minutes(m) == m * 60 * TicksPerSecond

\* calendar.timegm(dt.utctimetuple()): whole seconds since the epoch, the
\* fraction of a second dropped (PyJWT's conversion of a datetime claim)
timegm(dt) == dt \div TicksPerSecond

\* datetime.now(tz=utc).timestamp() < exp, both sides in ticks
Before(t, expSeconds) == t < expSeconds * TicksPerSecond

-----------------------------------------------------------------------------
(* dict *)

Has(d, k) == k \in DOMAIN d

\* d.update({k: v})
Update(d, k, v) == [x \in DOMAIN d \cup {k} |-> IF x = k THEN v ELSE d[x]]


-----------------------------------------------------------------------------
(* PyJWT, as called by src/auth.py *)

\* The HMAC of a signing input under a key: symbolic, equal only to an HMAC
\* of the same input under the same key and algorithm.
HmacSign(key, alg, msg) == [key |-> key, alg |-> alg, msg |-> msg]

\* A signature with a byte flipped: the HMAC of nothing anybody signed.
Flip(sig) == [sig EXCEPT !.key = "nobody"]

\* jwt.encode(payload, key, algorithm): a datetime 'exp' becomes whole
\* seconds, then header and payload are signed.
jwt_encode(payload, key, alg) ==
    LET claims == IF Has(payload, "exp")
                  THEN Update(payload, "exp", timegm(payload["exp"]))
                  ELSE payload
    IN  [wellformed |-> TRUE, alg |-> alg, payload |-> claims,
         signature |-> HmacSign(key, alg, claims)]

\* A string that is no three-part token.
Garbage == [wellformed |-> FALSE, alg |-> "", payload |-> <<>>,
            signature |-> HmacSign("", "", <<>>)]

\* The exception classes of jwt.exceptions and their base classes.
Bases(exc) ==
    CASE exc = "InvalidSignatureError"     -> {"InvalidSignatureError", "DecodeError", "InvalidTokenError", "PyJWTError"}
      [] exc = "DecodeError"               -> {"DecodeError", "InvalidTokenError", "PyJWTError"}
      [] exc = "ExpiredSignatureError"     -> {"ExpiredSignatureError", "InvalidTokenError", "PyJWTError"}
      [] exc = "InvalidAlgorithmError"     -> {"InvalidAlgorithmError", "InvalidTokenError", "PyJWTError"}
      [] exc = "MissingRequiredClaimError" -> {"MissingRequiredClaimError", "InvalidTokenError", "PyJWTError"}
      [] OTHER                             -> {exc}

\* jwt.decode(token, key, algorithms=..., options={"require": ...}) at
\* instant t: the payload, or the exception raised.
jwt_decode(token, key, algorithms, require, t) ==
    IF ~token.wellformed
    THEN [exc |-> "DecodeError", payload |-> <<>>]
    ELSE IF token.alg \notin algorithms
    THEN [exc |-> "InvalidAlgorithmError", payload |-> <<>>]
    ELSE IF token.signature # HmacSign(key, token.alg, token.payload)
    THEN [exc |-> "InvalidSignatureError", payload |-> <<>>]
    ELSE IF \E c \in require : ~Has(token.payload, c)
    THEN [exc |-> "MissingRequiredClaimError", payload |-> <<>>]
    ELSE IF Has(token.payload, "exp") /\ ~Before(t, token.payload["exp"])
    THEN [exc |-> "ExpiredSignatureError", payload |-> <<>>]
    ELSE [exc |-> "", payload |-> token.payload]

-----------------------------------------------------------------------------
(* src/auth.py: token service *)

\* expires_delta: a timedelta in ticks, or None
Delta(n) == [given |-> TRUE, ticks |-> n]
NoDelta  == [given |-> FALSE, ticks |-> 0]

\* to_encode = data.copy(): the dict that is encoded
CopyOf(data) == data

\* Mutant of CallerDictAfter: to_encode is the caller's dict itself, not a
\* copy of it.
CallerDictAfter_Aliased(data, toEncode) == toEncode

\* The caller's dict once create_access_token has returned.
CallerDictAfter(data, toEncode) == data

\* Mutant of SetExp: an 'exp' of the caller's is kept (dict.setdefault).
SetExp_KeepsCallers(toEncode, expire) ==
    IF Has(toEncode, "exp") THEN toEncode ELSE Update(toEncode, "exp", expire)

\* to_encode.update({"exp": expire})
SetExp(toEncode, expire) == Update(toEncode, "exp", expire)

\* Mutant of Expire: expires_delta is ignored.
Expire_IgnoresDelta(expires_delta, t) == t + Minutes(ACCESS_TOKEN_EXPIRE_MINUTES)

\* expire: now + expires_delta, or now + the configured lifetime
Expire(expires_delta, t) ==
    IF expires_delta.given
    THEN t + expires_delta.ticks
    ELSE t + Minutes(ACCESS_TOKEN_EXPIRE_MINUTES)

\* create_access_token(data, expires_delta) at instant t: the token
\* returned and the caller's dict afterwards.
CreateAt(data, expires_delta, t) ==
    LET to_encode == SetExp(CopyOf(data), Expire(expires_delta, t))
    IN  [token |-> jwt_encode(to_encode, SECRET_KEY, ALGORITHM),
         data  |-> CallerDictAfter(data, to_encode)]

create_access_token(data, expires_delta) == CreateAt(data, expires_delta, now)

\* Mutant of RequiredClaims: 'exp' is not required.
RequiredClaims_SubOnly == {"sub"}

\* options={"require": ["exp", "sub"]}
RequiredClaims == {"exp", "sub"}

\* Mutant of Caught: only the expiry error is caught.
Caught_ExpiredOnly == {"ExpiredSignatureError"}

\* except (jwt.InvalidTokenError, jwt.ExpiredSignatureError)
Caught == {"InvalidTokenError", "ExpiredSignatureError"}

\* The propagation of an exception out of a function.
Raised(exc) == <<"raise", exc>>

\* Whether a function's outcome is an exception it let through.
IsRaise(o) == Len(o) = 2 /\ o[1] = "raise"

\* verify_access_token(token) at instant t
VerifyAt(token, t) ==
    LET r == jwt_decode(token, SECRET_KEY, {ALGORITHM}, RequiredClaims, t)
    IN  IF r.exc = ""
        THEN IF Has(r.payload, "sub") THEN r.payload["sub"] ELSE None
        ELSE IF Bases(r.exc) \cap Caught # {}
        THEN None
        ELSE Raised(r.exc)

verify_access_token(token) == VerifyAt(token, now)

-----------------------------------------------------------------------------
(* The clock *)

\* The long sleep: one second less than the configured token lifetime.
SleepTicks == Minutes(ACCESS_TOKEN_EXPIRE_MINUTES) - TicksPerSecond

Slept(t) == t >= StartTicks + SleepTicks

\* Ticks since the start, or since the end of the long sleep.
Offset(t) == IF Slept(t) THEN t - (StartTicks + SleepTicks) ELSE t - StartTicks

\* Time passes by one tick.
Tick ==
    /\ Offset(now) < MaxExtraTicks
    /\ now' = now + 1
    /\ vres' = NoCall
    /\ UNCHANGED <<entropy, minted, hashed, pwres, apiVars>>

\* Time passes by SleepTicks.
Sleep ==
    /\ ~Slept(now)
    /\ now' = now + SleepTicks
    /\ vres' = NoCall
    /\ UNCHANGED <<entropy, minted, hashed, pwres, apiVars>>

-----------------------------------------------------------------------------
(* Callers of the token service *)

Subjects == {<<"7">>, <<"a", "b">>}

\* The claim dicts a caller passes: any of 'sub', 'exp' (a datetime of the
\* caller's own) and 'role'.
DataDicts ==
    { [k \in S |-> CASE k = "sub"  -> <<"7">>
                     [] k = "exp"  -> 0
                     [] k = "role" -> <<"x">>] :
      S \in SUBSET {"sub", "exp", "role"} }
    \cup { [k \in {"sub"} |-> s] : s \in Subjects }

MaxDeltaTicks == 2

Deltas == {NoDelta} \cup {Delta(n) : n \in -1 .. MaxDeltaTicks}

\* Tokens built without create_access_token: signed with the server's key
\* or another one, with or without the required claims, or unsigned.
DirectPayloads ==
    { [k \in S |-> IF k = "sub" THEN <<"7">> ELSE e] :
      S \in SUBSET {"sub", "exp"}, e \in {timegm(StartTicks) + 1} }

DirectTokens ==
    { [wellformed |-> TRUE, alg |-> ALGORITHM, payload |-> p,
       signature |-> HmacSign(k, ALGORITHM, p)] :
      p \in DirectPayloads, k \in {SECRET_KEY, OtherKey} }
    \cup
    { [wellformed |-> TRUE, alg |-> "none", payload |-> p,
       signature |-> HmacSign("", "none", p)] : p \in DirectPayloads }
    \cup {Garbage}

\* What an attacker makes of a token it holds.
Tampered(tok) ==
    { [tok EXCEPT !.signature = Flip(@)],
      [tok EXCEPT !.signature = HmacSign(OtherKey, tok.alg, tok.payload)],
      [tok EXCEPT !.payload = Update(@, "sub", <<"9">>)],
      [tok EXCEPT !.payload = Update(@, "exp", timegm(StartTicks + SleepTicks) + 100)] }

TokenPool ==
    DirectTokens \cup
    (IF minted.called THEN {minted.ret} \cup Tampered(minted.ret) ELSE {})

\* A caller mints a token.
Mint(data, expires_delta) ==
    /\ LET r == create_access_token(data, expires_delta)
       IN  minted' = [called |-> TRUE, data |-> data, delta |-> expires_delta,
                      t0 |-> now, ret |-> r.token, dataAfter |-> r.data]
    /\ vres' = NoCall
    /\ UNCHANGED <<now, entropy, hashed, pwres, apiVars>>

\* A caller verifies a token.
Verify(tok) ==
    /\ vres' = [called |-> TRUE, token |-> tok, out |-> verify_access_token(tok)]
    /\ UNCHANGED <<now, entropy, minted, hashed, pwres, apiVars>>

InitAuth ==
    /\ now = StartTicks
    /\ entropy = 0
    /\ minted = NoCall
    /\ vres = NoCall
    /\ hashed = <<>>
    /\ pwres = NoCall
    /\ users = <<>>
    /\ nextId = 1
    /\ uniqueCols = TRUE
    /\ req = <<>>
    /\ started = 0

NextToken ==
    \/ Tick
    \/ Sleep
    \/ \E d \in DataDicts, e \in Deltas : Mint(d, e)
    \/ \E tok \in TokenPool : Verify(tok)

SpecToken == InitAuth /\ [][NextToken]_vars

-----------------------------------------------------------------------------
(* Claims about the token service, checked under SpecToken *)

\* The lifetime a create_access_token call was given: expires_delta, or the
\* configured minutes.
Ttl(m) == IF m.delta.given THEN m.delta.ticks
          ELSE ACCESS_TOKEN_EXPIRE_MINUTES * 60 * TicksPerSecond

SignedByServer(tok) ==
    /\ tok.wellformed
    /\ tok.alg = ALGORITHM
    /\ tok.signature = [key |-> SECRET_KEY, alg |-> ALGORITHM, msg |-> tok.payload]

\* C1: verify_access_token returns something other than None only for a
\* token that is signed under the configured key and algorithm, carries
\* both 'sub' and 'exp', and whose 'exp' is later than the current time.
C1_ValidOnlyIf ==
    (vres.called /\ vres.out # None) =>
        /\ SignedByServer(vres.token)
        /\ "sub" \in DOMAIN vres.token.payload
        /\ "exp" \in DOMAIN vres.token.payload
        /\ now < vres.token.payload["exp"] * TicksPerSecond
        /\ vres.out = vres.token.payload["sub"]

\* C1 witness: a correctly signed token without 'exp' was verified and
\* rejected.
C1_Witness ==
    /\ vres.called
    /\ SignedByServer(vres.token)
    /\ DOMAIN vres.token.payload = {"sub"}
    /\ vres.out = None

\* C3: verify_access_token never raises, and whenever decoding fails, for
\* whatever cause, it returns None.
C3_NeverRaises ==
    vres.called =>
        /\ ~IsRaise(vres.out)
        /\ (~SignedByServer(vres.token)
            \/ ~({"sub", "exp"} \subseteq DOMAIN vres.token.payload)
            \/ now >= vres.token.payload["exp"] * TicksPerSecond)
           => vres.out = None

\* C3 witness: a correctly signed token with both claims was verified after
\* its expiry and answered with None.
C3_Witness ==
    /\ vres.called
    /\ vres.out = None
    /\ SignedByServer(vres.token)
    /\ {"sub", "exp"} \subseteq DOMAIN vres.token.payload
    /\ now >= vres.token.payload["exp"] * TicksPerSecond

\* C8 as stated: the 'exp' claim of a minted token is exactly the creation
\* time plus the lifetime.
C8_ExpIsNowPlusTtl ==
    minted.called =>
        minted.ret.payload["exp"] * TicksPerSecond = minted.t0 + Ttl(minted)

\* C8 amended: the 'exp' claim of a minted token is the creation time plus
\* the lifetime (expires_delta when given, else the configured minutes) cut
\* down to whole seconds, also when the caller's dict has an 'exp' of its
\* own; every other claim of the caller is in the token unchanged.
C8_ExpTruncated ==
    minted.called =>
        LET p == minted.ret.payload
            e == minted.t0 + Ttl(minted)
        IN  /\ DOMAIN p = DOMAIN minted.data \cup {"exp"}
            /\ p["exp"] * TicksPerSecond <= e
            /\ e < (p["exp"] + 1) * TicksPerSecond
            /\ \A k \in DOMAIN minted.data \ {"exp"} : p[k] = minted.data[k]

\* C8 witness: a token was minted from a dict that has its own 'exp', at an
\* instant where creation time plus lifetime is no whole second.
C8_Witness ==
    /\ minted.called
    /\ "exp" \in DOMAIN minted.data
    /\ "sub" \in DOMAIN minted.data
    /\ minted.delta.given
    /\ (minted.t0 + Ttl(minted)) % TicksPerSecond # 0

\* A verify_access_token call on the token the last create_access_token
\* call returned, made from a dict with a subject.
VerifiedMinted ==
    /\ minted.called
    /\ vres.called
    /\ "sub" \in DOMAIN minted.data
    /\ vres.token = minted.ret

\* C2 as stated: a token minted at T0 with lifetime ttl verifies to its
\* subject at every instant before T0 + ttl and to None from T0 + ttl on.
C2_SwitchAtExpiryInstant ==
    VerifiedMinted =>
        vres.out = IF now < minted.t0 + Ttl(minted)
                   THEN minted.data["sub"] ELSE None

\* The last whole second that is not after T0 + ttl, in ticks.
ExpirySecond(m) == ((m.t0 + Ttl(m)) \div TicksPerSecond) * TicksPerSecond

C2_Boundary ==
    VerifiedMinted =>
        /\ vres.out = IF now < ExpirySecond(minted)
                      THEN minted.data["sub"] ELSE None
        /\ Ttl(minted) <= 0 => vres.out = None

C2_StaysExpired ==
    (minted.called /\ VerifyAt(minted.ret, now) = None)
        => VerifyAt(minted.ret, now') = None

\* C2 amended: a token minted at T0 with lifetime ttl verifies to its
\* subject at every instant before the last whole second that is not after
\* T0 + ttl, and to None from that second on; a token minted with ttl <= 0
\* never verifies; and a token that has verified to None never verifies to
\* a subject later.
C2_Lifecycle == []C2_Boundary /\ [][C2_StaysExpired]_vars

\* C2 witness: a minted token was rejected as expired at an instant that is
\* still before T0 + ttl.
C2_Witness ==
    /\ VerifiedMinted
    /\ Ttl(minted) > 0
    /\ now >= ExpirySecond(minted)
    /\ now < minted.t0 + Ttl(minted)
    /\ vres.out = None

-----------------------------------------------------------------------------
(* pwdlib, as called by src/auth.py: PasswordHash.recommended() knows the    *)
(* Argon2 hasher only                                                      *)

\* The Argon2 digest of a password under a salt: symbolic, equal only to
\* the digest of the same password under the same salt.
Argon2(password, salt) == [pw |-> password, salt |-> salt]

\* An encoded hash string: "$<scheme>$<parameters>$<salt>$<digest>";
\* decodable is FALSE when parameters, salt or digest do not decode.
HashString(scheme, decodable, salt, digest) ==
    [scheme |-> scheme, decodable |-> decodable, salt |-> salt, digest |-> digest]

\* The next value of the entropy source: one it has not returned before.
urandom == entropy

\* PasswordHash.hash(password) with the given salt
PasswordHash_hash(password, salt) ==
    HashString("argon2id", TRUE, salt, Argon2(password, salt))

\* PasswordHash.verify(password, hash): the first hasher that identifies
\* the hash verifies it, a hash it cannot decode or that does not match
\* being False; a hash no hasher identifies raises UnknownHashError.
PasswordHash_verify(password, hash) ==
    IF hash.scheme = "argon2id"
    THEN IF hash.decodable /\ hash.digest = Argon2(password, hash.salt)
         THEN "True" ELSE "False"
    ELSE "raise UnknownHashError"

-----------------------------------------------------------------------------
(* src/auth.py: password hasher *)

\* Mutant of hash_password: the same salt on every call.
hash_password_StaticSalt(password) == PasswordHash_hash(password, 0)

hash_password(password) == PasswordHash_hash(password, urandom)

verify_password(plain_password, hashed_password) ==
    PasswordHash_verify(plain_password, hashed_password)

-----------------------------------------------------------------------------
(* Callers of the password hasher *)

Passwords == {"pw1", "pw2"}

\* Stored hashes that hash_password did not produce: another scheme's, an
\* empty string, an Argon2 hash cut short.
ForeignHashes ==
    { HashString("bcrypt", TRUE, 0, Argon2(p, 0)) : p \in Passwords }
    \cup { HashString("", FALSE, 0, Argon2("", 0)) }
    \cup { HashString("argon2id", FALSE, 0, Argon2(p, 0)) : p \in Passwords }

\* The hashes of the last two hash_password calls.
Produced == { hashed[i].hash : i \in DOMAIN hashed }

\* A caller hashes a password.
Hash(p) ==
    /\ entropy < MaxSalts
    /\ hashed' = (IF Len(hashed) < 2 THEN hashed ELSE Tail(hashed))
                 \o <<[pw |-> p, hash |-> hash_password(p)]>>
    /\ entropy' = entropy + 1
    /\ UNCHANGED <<now, minted, vres, pwres, apiVars>>

\* A caller verifies a password against a stored hash.
VerifyPw(q, h) ==
    /\ pwres' = [called |-> TRUE, plain |-> q, hash |-> h,
                 out |-> verify_password(q, h)]
    /\ UNCHANGED <<now, entropy, minted, vres, hashed, apiVars>>

NextPw ==
    \/ \E p \in Passwords : Hash(p)
    \/ \E q \in Passwords, h \in Produced \cup ForeignHashes : VerifyPw(q, h)

SpecPw == InitAuth /\ [][NextPw]_vars

-----------------------------------------------------------------------------
(* Claims about the password hasher, checked under SpecPw *)

\* C5: verify_password never raises: for a stored hash that hash_password
\* did not produce (malformed, or of another scheme) it returns False.
C5_FalseOnForeignHash ==
    (pwres.called /\ pwres.hash \in ForeignHashes) => pwres.out = "False"

\* C6: a hash returned by hash_password(P) verifies against Q exactly when
\* Q = P, and two hash_password calls return different hashes, also for
\* the same password.
C6_VerifyIffSame ==
    /\ \A i \in DOMAIN hashed :
         (pwres.called /\ pwres.hash = hashed[i].hash) =>
             pwres.out = IF pwres.plain = hashed[i].pw THEN "True" ELSE "False"
    /\ \A i, j \in DOMAIN hashed : i # j => hashed[i].hash # hashed[j].hash

\* C6 witness: the same password was hashed twice, and the second hash
\* verified against it.
C6_Witness ==
    /\ Len(hashed) = 2
    /\ hashed[1].pw = hashed[2].pw
    /\ pwres.called
    /\ pwres.hash = hashed[2].hash
    /\ pwres.plain = hashed[2].pw
    /\ pwres.out = "True"

-----------------------------------------------------------------------------
(* str and int *)

\* str.lower(), for the letters the model uses
LowerChar(c) == CASE c = "A" -> "a" [] c = "B" -> "b" [] OTHER -> c

Lower(s) == [i \in DOMAIN s |-> LowerChar(s[i])]

DigitChars == <<"0", "1", "2", "3", "4", "5", "6", "7", "8", "9">>

\* The value of a decimal digit, -1 for any other character.
DigitOf(c) ==
    IF \E d \in DOMAIN DigitChars : DigitChars[d] = c
    THEN (CHOOSE d \in DOMAIN DigitChars : DigitChars[d] = c) - 1
    ELSE -1

RECURSIVE StrOfNat(_)
StrOfNat(n) ==
    IF n < 10 THEN <<DigitChars[n + 1]>>
    ELSE StrOfNat(n \div 10) \o <<DigitChars[(n % 10) + 1]>>

\* str(n) of an integer
str(n) == IF n < 0 THEN <<"-">> \o StrOfNat(-n) ELSE StrOfNat(n)

RECURSIVE DigitsValue(_, _)
DigitsValue(s, acc) ==
    IF s = <<>> THEN acc
    ELSE DigitsValue(Tail(s), acc * 10 + DigitOf(Head(s)))

\* int(s) of a string: an optional sign, then decimal digits; anything else
\* is a ValueError (ok = FALSE).
int(s) ==
    LET signed == s # <<>> /\ Head(s) \in {"+", "-"}
        digits == IF signed THEN Tail(s) ELSE s
    IN  IF digits # <<>> /\ \A i \in DOMAIN digits : DigitOf(digits[i]) >= 0
        THEN [ok |-> TRUE,
              value |-> IF signed /\ Head(s) = "-"
                        THEN 0 - DigitsValue(digits, 0)
                        ELSE DigitsValue(digits, 0)]
        ELSE [ok |-> FALSE, value |-> 0]

-----------------------------------------------------------------------------
(* The user table, as src/routers/users.py queries it *)

\* A row of the user table.
User(id, username, email, password_hash) ==
    [id |-> id, username |-> username, email |-> email,
     password_hash |-> password_hash]

\* The result of a query that matches no row.
NoRow == User(0, <<>>, <<>>, HashString("", FALSE, 0, Argon2("", 0)))

Rows == { users[i] : i \in DOMAIN users }

\* select(User).where(func.lower(User.username) == name)
ByLowerUsername(name) == { u \in Rows : Lower(u.username) = name }

\* select(User).where(func.lower(User.email) == email)
ByLowerEmail(email) == { u \in Rows : Lower(u.email) = email }

\* select(User).where(User.id == id)
ById(id) == IF id \in DOMAIN users THEN users[id] ELSE NoRow

\* Whether writing row breaks a UNIQUE constraint of the table, when the
\* table has them: another row with the very same username or email.
BreaksUnique(row) ==
    /\ uniqueCols
    /\ \E u \in Rows : u.id # row.id /\ (u.username = row.username \/ u.email = row.email)

-----------------------------------------------------------------------------
(* Requests and responses *)

Slots == {"r1", "r2"}

MaxRequests == 3

Response(status, detail, headers, body) ==
    [status |-> status, detail |-> detail, headers |-> headers, body |-> body]

\* raise HTTPException(status, detail, headers)
HTTPException(status, detail, headers) == Response(status, detail, headers, <<>>)

\* An exception no handler catches.
ServerError == Response(500, "Internal Server Error", "", <<>>)

NoResp == Response(0, "", "", <<>>)

Idle == [op |-> "idle", pc |-> "idle", arg |-> <<>>, loc |-> NoRow, resp |-> NoResp]

Free(s) == req[s].pc \in {"idle", "done"}

Accepting(s) == Free(s) /\ started < MaxRequests

\* The slot once its handler has returned or raised.
Done(op, arg, loc, resp) ==
    [op |-> op, pc |-> "done", arg |-> arg, loc |-> loc, resp |-> resp]

\* The slot while its handler waits for the database.
Waiting(op, pc, arg, loc) ==
    [op |-> op, pc |-> pc, arg |-> arg, loc |-> loc, resp |-> NoResp]

At(s, op, pc) == req[s].op = op /\ req[s].pc = pc

-----------------------------------------------------------------------------
(* src/routers/users.py: create_user.  Each action is one awaited database *)
(* call together with the code that runs until the next one.               *)

\* The request arrives; the query for the username.
create_user_username(s, user) ==
    /\ Accepting(s)
    /\ started' = started + 1
    /\ req' = [req EXCEPT ![s] =
                 IF ByLowerUsername(Lower(user.username)) # {}
                 THEN Done("create_user", <<>>, NoRow,
                           HTTPException(400, "Username already exists", ""))
                 ELSE Waiting("create_user", "email", user, NoRow)]
    /\ UNCHANGED <<now, entropy, minted, vres, hashed, pwres, users, nextId, uniqueCols>>

\* The query for the email; new_user is built and added to the session.
create_user_email(s) ==
    /\ At(s, "create_user", "email")
    /\ LET user == req[s].arg
       IN  IF ByLowerEmail(Lower(user.email)) # {}
           THEN /\ req' = [req EXCEPT ![s] =
                             Done("create_user", <<>>, NoRow,
                                  HTTPException(400, "Email already registered", ""))]
                /\ UNCHANGED entropy
           ELSE /\ entropy < MaxSalts
                /\ req' = [req EXCEPT ![s] =
                             Waiting("create_user", "commit", <<>>,
                                     User(0, user.username, Lower(user.email),
                                          hash_password(user.password)))]
                /\ entropy' = entropy + 1
    /\ UNCHANGED <<now, minted, vres, hashed, pwres, users, nextId, uniqueCols, started>>

\* db.commit(): the INSERT.
create_user_commit(s) ==
    /\ At(s, "create_user", "commit")
    /\ LET row == [req[s].loc EXCEPT !.id = nextId]
       IN  IF BreaksUnique(row)
           THEN /\ req' = [req EXCEPT ![s] = Done("create_user", <<>>, NoRow, ServerError)]
                /\ UNCHANGED <<users, nextId>>
           ELSE /\ users' = [i \in DOMAIN users \cup {nextId} |->
                               IF i = nextId THEN row ELSE users[i]]
                /\ nextId' = nextId + 1
                /\ req' = [req EXCEPT ![s] = Waiting("create_user", "refresh", <<>>, row)]
    /\ UNCHANGED <<now, entropy, minted, vres, hashed, pwres, uniqueCols, started>>

\* db.refresh(new_user); return new_user.
create_user_refresh(s) ==
    /\ At(s, "create_user", "refresh")
    /\ req' = [req EXCEPT ![s] =
                 Done("create_user", <<>>, NoRow,
                      IF req[s].loc.id \in DOMAIN users
                      THEN Response(201, "", "", <<>>)
                      ELSE ServerError)]
    /\ UNCHANGED <<now, entropy, minted, vres, hashed, pwres, users, nextId, uniqueCols, started>>

-----------------------------------------------------------------------------
(* src/routers/users.py: login_for_access_token and get_current_user: one  *)
(* awaited database call each                                              *)

\* Mutant of LoginRejects: the password is not checked.
LoginRejects_UserOnly(user, password) == user = NoRow

\* not user or not verify_password(form_data.password, user.password_hash)
LoginRejects(user, password) ==
    \/ user = NoRow
    \/ verify_password(password, user.password_hash) # "True"

login_for_access_token(s, form_data) ==
    /\ Accepting(s)
    /\ started' = started + 1
    /\ \E user \in IF ByLowerEmail(Lower(form_data.username)) = {}
                   THEN {NoRow}
                   ELSE ByLowerEmail(Lower(form_data.username)) :
         IF user # NoRow /\ verify_password(form_data.password, user.password_hash)
                               \notin {"True", "False"}
         THEN /\ req' = [req EXCEPT ![s] =
                           Done("login_for_access_token", form_data, user, ServerError)]
              /\ UNCHANGED minted
         ELSE IF LoginRejects(user, form_data.password)
         THEN /\ req' = [req EXCEPT ![s] =
                           Done("login_for_access_token", form_data, user,
                                HTTPException(401, "Incorrect email or password", "Bearer"))]
              /\ UNCHANGED minted
         ELSE LET data == [k \in {"sub"} |-> str(user.id)]
                  delta == Delta(Minutes(ACCESS_TOKEN_EXPIRE_MINUTES))
                  r == create_access_token(data, delta)
              IN  /\ minted' = [called |-> TRUE, data |-> data, delta |-> delta,
                                t0 |-> now, ret |-> r.token, dataAfter |-> r.data]
                  /\ req' = [req EXCEPT ![s] =
                               Done("login_for_access_token", form_data, user,
                                    Response(200, "", "", r.token))]
    /\ UNCHANGED <<now, entropy, vres, hashed, pwres, users, nextId, uniqueCols>>

get_current_user(s, token) ==
    /\ Accepting(s)
    /\ started' = started + 1
    /\ LET user_id == verify_access_token(token)
           resp ==
               IF user_id = None
               THEN HTTPException(401, "Invalid authentication credentials", "Bearer")
               ELSE IF IsRaise(user_id)
               THEN ServerError
               ELSE IF ~int(user_id).ok
               THEN HTTPException(401, "Invalid or expired token", "Bearer")
               ELSE IF ById(int(user_id).value) = NoRow
               THEN HTTPException(401, "User not found", "Bearer")
               ELSE Response(200, "", "", <<>>)
       IN  req' = [req EXCEPT ![s] = Done("get_current_user", <<>>, NoRow, resp)]
    /\ UNCHANGED <<now, entropy, minted, vres, hashed, pwres, users, nextId, uniqueCols>>

-----------------------------------------------------------------------------
(* src/routers/users.py: update_user and delete_user *)

\* user_update.username is not None and its lower case differs from the user's
UsernameChanges(user_update, user) ==
    /\ user_update.username # None
    /\ Lower(user_update.username) # Lower(user.username)

\* user_update.email is not None and user_update.email != user.email
EmailChanges(user_update, user) ==
    /\ user_update.email # None
    /\ user_update.email # user.email

\* The request arrives; the user is loaded.
update_user_load(s, user_id, user_update) ==
    /\ Accepting(s)
    /\ started' = started + 1
    /\ LET user == ById(user_id)
       IN  req' = [req EXCEPT ![s] =
                     IF user = NoRow
                     THEN Done("update_user", <<>>, NoRow,
                               HTTPException(404, "User not found", ""))
                     ELSE Waiting("update_user",
                                  IF UsernameChanges(user_update, user) THEN "username"
                                  ELSE IF EmailChanges(user_update, user) THEN "email"
                                  ELSE "commit",
                                  user_update, user)]
    /\ UNCHANGED <<now, entropy, minted, vres, hashed, pwres, users, nextId, uniqueCols>>

\* The query for the new username.
update_user_username(s) ==
    /\ At(s, "update_user", "username")
    /\ req' = [req EXCEPT ![s] =
                 IF ByLowerUsername(Lower(req[s].arg.username)) # {}
                 THEN Done("update_user", <<>>, NoRow,
                           HTTPException(400, "Username already exists", ""))
                 ELSE Waiting("update_user",
                              IF EmailChanges(req[s].arg, req[s].loc) THEN "email"
                              ELSE "commit",
                              req[s].arg, req[s].loc)]
    /\ UNCHANGED <<now, entropy, minted, vres, hashed, pwres, users, nextId, uniqueCols, started>>

\* The query for the new email.
update_user_email(s) ==
    /\ At(s, "update_user", "email")
    /\ req' = [req EXCEPT ![s] =
                 IF ByLowerEmail(Lower(req[s].arg.email)) # {}
                 THEN Done("update_user", <<>>, NoRow,
                           HTTPException(400, "Email already registered", ""))
                 ELSE Waiting("update_user", "commit", req[s].arg, req[s].loc)]
    /\ UNCHANGED <<now, entropy, minted, vres, hashed, pwres, users, nextId, uniqueCols, started>>

\* The attributes are assigned; db.commit(): the UPDATE of the columns that
\* changed, which fails when the row is gone.
update_user_commit(s) ==
    /\ At(s, "update_user", "commit")
    /\ LET user_update == req[s].arg
           user == req[s].loc
           username == IF user_update.username # None
                       THEN user_update.username ELSE user.username
           email == IF user_update.email # None
                    THEN Lower(user_update.email) ELSE user.email
           dirty == username # user.username \/ email # user.email
           current == ById(user.id)
           row == User(user.id,
                       IF username # user.username THEN username ELSE current.username,
                       IF email # user.email THEN email ELSE current.email,
                       current.password_hash)
       IN  IF ~dirty
           THEN /\ req' = [req EXCEPT ![s] = Waiting("update_user", "refresh", <<>>, user)]
                /\ UNCHANGED users
           ELSE IF current = NoRow \/ BreaksUnique(row)
           THEN /\ req' = [req EXCEPT ![s] = Done("update_user", <<>>, NoRow, ServerError)]
                /\ UNCHANGED users
           ELSE /\ users' = [users EXCEPT ![user.id] = row]
                /\ req' = [req EXCEPT ![s] = Waiting("update_user", "refresh", <<>>, user)]
    /\ UNCHANGED <<now, entropy, minted, vres, hashed, pwres, nextId, uniqueCols, started>>

\* db.refresh(user); return user.
update_user_refresh(s) ==
    /\ At(s, "update_user", "refresh")
    /\ req' = [req EXCEPT ![s] =
                 Done("update_user", <<>>, NoRow,
                      IF req[s].loc.id \in DOMAIN users
                      THEN Response(200, "", "", <<>>)
                      ELSE ServerError)]
    /\ UNCHANGED <<now, entropy, minted, vres, hashed, pwres, users, nextId, uniqueCols, started>>

\* The request arrives; the user is loaded and marked for deletion.
delete_user_load(s, user_id) ==
    /\ Accepting(s)
    /\ started' = started + 1
    /\ LET user == ById(user_id)
       IN  req' = [req EXCEPT ![s] =
                     IF user = NoRow
                     THEN Done("delete_user", <<>>, NoRow,
                               HTTPException(404, "User not found", ""))
                     ELSE Waiting("delete_user", "commit", <<>>, user)]
    /\ UNCHANGED <<now, entropy, minted, vres, hashed, pwres, users, nextId, uniqueCols>>

\* db.commit(): the DELETE.
delete_user_commit(s) ==
    /\ At(s, "delete_user", "commit")
    /\ users' = [i \in DOMAIN users \ {req[s].loc.id} |-> users[i]]
    /\ req' = [req EXCEPT ![s] =
                 Done("delete_user", <<>>, NoRow, Response(204, "", "", <<>>))]
    /\ UNCHANGED <<now, entropy, minted, vres, hashed, pwres, nextId, uniqueCols, started>>

-----------------------------------------------------------------------------
(* Clients of the API *)

Usernames == {<<"B">>, <<"b">>}
Emails    == {<<"A">>, <<"a">>, <<"d">>}

UserCreates ==
    { [username |-> n, email |-> e, password |-> "pw1"] :
      n \in Usernames, e \in Emails }

UserUpdates ==
    { [username |-> n, email |-> None] : n \in {<<"B">>, <<"c">>} }
    \cup { [username |-> None, email |-> e] : e \in {<<"A">>, <<"d">>} }

LoginForms ==
    { [username |-> e, password |-> p] : e \in {<<"A">>, <<"d">>}, p \in Passwords }

UserIds == 1 .. 2

\* Bearer tokens a client presents: the token of the last login, tokens
\* signed with the server's key for a subject that is no user id or that is
\* no number, and a token signed with another key.
FarExp == timegm(StartTicks) + 2 * ACCESS_TOKEN_EXPIRE_MINUTES * 60

BearerTokens ==
    { [wellformed |-> TRUE, alg |-> ALGORITHM, payload |-> p,
       signature |-> HmacSign(SECRET_KEY, ALGORITHM, p)] :
      p \in { [k \in {"sub", "exp"} |-> IF k = "sub" THEN sub ELSE FarExp] :
              sub \in {<<"9">>, <<"a", "b">>} } }
    \cup
    { [wellformed |-> TRUE, alg |-> ALGORITHM, payload |-> p,
       signature |-> HmacSign(OtherKey, ALGORITHM, p)] :
      p \in { [k \in {"sub", "exp"} |-> IF k = "sub" THEN <<"1">> ELSE FarExp] } }
    \cup (IF minted.called THEN {minted.ret} ELSE {})

\* Time passes by the configured token lifetime.
Lapse ==
    /\ now = StartTicks
    /\ now' = now + Minutes(ACCESS_TOKEN_EXPIRE_MINUTES)
    /\ UNCHANGED <<entropy, minted, vres, hashed, pwres, apiVars>>

InitApi ==
    /\ now = StartTicks
    /\ entropy = 0
    /\ minted = NoCall
    /\ vres = NoCall
    /\ hashed = <<>>
    /\ pwres = NoCall
    /\ users = <<>>
    /\ nextId = 1
    /\ uniqueCols \in BOOLEAN
    /\ req = [s \in Slots |-> Idle]
    /\ started = 0

NextApi ==
    \/ Lapse
    \/ \E s \in Slots :
         \/ \E user \in UserCreates : create_user_username(s, user)
         \/ create_user_email(s)
         \/ create_user_commit(s)
         \/ create_user_refresh(s)
         \/ \E form_data \in LoginForms : login_for_access_token(s, form_data)
         \/ \E token \in BearerTokens : get_current_user(s, token)
         \/ \E user_id \in UserIds, user_update \in UserUpdates :
              update_user_load(s, user_id, user_update)
         \/ update_user_username(s)
         \/ update_user_email(s)
         \/ update_user_commit(s)
         \/ update_user_refresh(s)
         \/ \E user_id \in UserIds : delete_user_load(s, user_id)
         \/ delete_user_commit(s)

SpecApi == InitApi /\ [][NextApi]_vars

\* The same, for a user table whose columns carry UNIQUE constraints.
InitApiUnique == InitApi /\ uniqueCols

SpecApiUnique == InitApiUnique /\ [][NextApi]_vars

-----------------------------------------------------------------------------
(* Claims about the handlers, checked under SpecApi and SpecApiUnique *)

Finished(s, op) == req[s].op = op /\ req[s].pc = "done"

\* C4: all authentication failures of get_current_user are the same
\* response: status, detail and headers.
C4_UniformFailure ==
    \A s, t \in Slots :
        ( /\ Finished(s, "get_current_user") /\ req[s].resp.status # 200
          /\ Finished(t, "get_current_user") /\ req[t].resp.status # 200 )
        => req[s].resp = req[t].resp

\* The step in which slot s receives and serves a request of handler op.
Serves(s, op) ==
    /\ started' = started + 1
    /\ req'[s] # req[s]
    /\ req'[s].op = op

C9_LoginStep ==
    \A s \in Slots : Serves(s, "login_for_access_token") =>
        LET form == req'[s].arg
            user == req'[s].loc
            resp == req'[s].resp
        IN  IF resp.status = 200
            THEN /\ user \in Rows
                 /\ Lower(user.email) = Lower(form.username)
                 /\ user.password_hash.scheme = "argon2id"
                 /\ user.password_hash.digest =
                        [pw |-> form.password, salt |-> user.password_hash.salt]
                 /\ SignedByServer(resp.body)
                 /\ resp.body.payload["sub"] = StrOfNat(user.id)
                 /\ resp.body.payload["exp"] * TicksPerSecond
                        <= now + ACCESS_TOKEN_EXPIRE_MINUTES * 60 * TicksPerSecond
                 /\ now + ACCESS_TOKEN_EXPIRE_MINUTES * 60 * TicksPerSecond
                        < (resp.body.payload["exp"] + 1) * TicksPerSecond
            ELSE /\ resp = [status |-> 401, detail |-> "Incorrect email or password",
                            headers |-> "Bearer", body |-> <<>>]
                 /\ minted' = minted
                 /\ \/ \A u \in Rows : Lower(u.email) # Lower(form.username)
                    \/ /\ user \in Rows
                       /\ user.password_hash.digest.pw # form.password

\* C9: login_for_access_token returns a token only when a stored user's
\* lower-cased email equals the lower-cased submitted username and the
\* submitted password verifies against that user's hash; the token's
\* subject is that user's id as a string and its lifetime the configured
\* minutes; otherwise no token is created and the response is the one 401
\* 'Incorrect email or password'.
C9_TokenOnlyAfterCheck == [][C9_LoginStep]_vars

\* C9 witness: a login with the e-mail in another case than stored and the
\* right password was answered with a token.
C9_Witness ==
    \E s \in Slots :
        /\ Finished(s, "login_for_access_token")
        /\ req[s].resp.status = 200
        /\ req[s].arg.username # req[s].loc.email

C7_Frame ==
    \* no step but the passing of time changes what a token verifies to
    /\ now' = now =>
         \A tok \in BearerTokens :
             verify_access_token(tok)' = verify_access_token(tok)
    \* minting leaves the caller's dict as it was
    /\ minted'.called => minted'.dataAfter = minted'.data
    \* minting and verifying write nothing shared
    /\ \A s \in Slots :
         /\ Serves(s, "login_for_access_token") =>
                /\ UNCHANGED <<users, nextId, uniqueCols, now>>
                /\ \A t \in Slots \ {s} : req'[t] = req[t]
         /\ Serves(s, "get_current_user") =>
                /\ UNCHANGED <<users, nextId, uniqueCols, now, minted>>
                /\ \A t \in Slots \ {s} : req'[t] = req[t]

C10_CaseInsensitiveUnique ==
    \A i, j \in DOMAIN users :
        i # j => /\ Lower(users[i].email) # Lower(users[j].email)
                 /\ Lower(users[i].username) # Lower(users[j].username)

=============================================================================
